---------------------------- MODULE Spec2Model ----------------------------
(***************************************************************************)
(* Model of the calendar-event HTTP handlers of esap-events-api.           *)
(*                                                                         *)
(* The repository holds several variants of the same serverless handler:   *)
(*   src/api/events.ts:57    version 3 (recurrence + timed EXDATE)         *)
(*   src/api/events.ts:155   version 1 (assertEnv)                         *)
(*   src/api/events.ts:255   version 2 (upper-cased RRULE, all-day EXDATE) *)
(*   src/api/events.ts:358   version 2 with normalizeDateInput             *)
(*   src/unnamed/part_000    diagnostic handler (calendars.get, list)      *)
(*   src/unnamed/part_001    POST-only handler, no configuration check     *)
(*   src/unnamed/part_002    version 1 (mustEnv)                           *)
(*                                                                         *)
(* A handler runs synchronously up to its first await, so one action runs  *)
(* a handler from the arrival of the request to either its response or the *)
(* upstream call it awaits; further actions resolve or reject that call.   *)
(*                                                                         *)
(* JavaScript values are tagged records: [t |-> "undef"], [t |-> "str", s  *)
(* |-> <<characters>>], [t |-> "arr", a |-> <<values>>] and [t |-> "obj",  *)
(* ...].  Strings that the code inspects are sequences of one-character    *)
(* strings, so that trim, toUpperCase, replaceAll, split and the regular   *)
(* expressions are computed character by character.                        *)
(***************************************************************************)
EXTENDS Integers, Sequences, FiniteSets, TLC

VARIABLES
  env,       \* process.env: setting name -> characters (<<>> when unset)
  handler,   \* the handler variant serving the current request
  req,       \* the current request: [method, origin, body]
  pc,        \* "idle", "awaitInsert", "awaitGet", "awaitList" or "done"
  headers,   \* response headers set so far: header name -> value
  resp,      \* the response sent: [status, body]
  calls,     \* upstream operations invoked for the current request
  envRead,   \* names of the settings read for the current request
  rejected   \* the error the awaited upstream call was rejected with

vars == <<env, handler, req, pc, headers, resp, calls, envRead, rejected>>

---------------------------------------------------------------------------
(* Bounds of the model. *)

\* longest exDates list a request carries
MaxExDates == 2
\* longest recurrence array a request carries
MaxLines == 2

---------------------------------------------------------------------------
(* JavaScript values and string operations. *)

Undef == [t |-> "undef"]
Str(s) == [t |-> "str", s |-> s]
Arr(a) == [t |-> "arr", a |-> a]
DateObj(dateTime, timeZone) == [t |-> "obj", dateTime |-> dateTime, timeZone |-> timeZone]

\* the result of an expression that may throw
Ok(v) == [ok |-> TRUE, v |-> v]
\* a thrown Error: no response field, only a message
Throw(m) == [ok |-> FALSE, err |-> [status |-> 0, envelope |-> "", message |-> m]]

lower ==
  <<"a","b","c","d","e","f","g","h","i","j","k","l","m","n","o","p","q","r","s","t","u","v","w","x","y","z">>
upper ==
  <<"A","B","C","D","E","F","G","H","I","J","K","L","M","N","O","P","Q","R","S","T","U","V","W","X","Y","Z">>
digits == {"0","1","2","3","4","5","6","7","8","9"}
whitespace == {" ", "\t", "\n", "\r"}

cRRULE == <<"R","R","U","L","E",":">>
cExTzid == <<"E","X","D","A","T","E",";","T","Z","I","D","=">>
cExValue == <<"E","X","D","A","T","E",";","V","A","L","U","E","=","D","A","T","E",":">>
cMidnight == <<"0","0",":","0","0",":","0","0">>
cZeroSec == <<":","0","0">>
cMillisZ == <<".","0","0","0","Z">>
cUndefined == <<"u","n","d","e","f","i","n","e","d">>
cObjectObject == <<"[","o","b","j","e","c","t"," ","O","b","j","e","c","t","]">>

\* JavaScript truthiness of a value
Truthy(v) ==
  CASE v.t = "undef" -> FALSE
    [] v.t = "str" -> v.s # <<>>
    [] OTHER -> TRUE

upperChar(c) ==
  IF \E i \in 1..Len(lower) : lower[i] = c
  THEN upper[CHOOSE i \in 1..Len(lower) : lower[i] = c]
  ELSE c

\* String.prototype.toUpperCase
toUpperCase(s) == [i \in 1..Len(s) |-> upperChar(s[i])]

RECURSIVE trimStart(_)
trimStart(s) ==
  IF s # <<>> /\ Head(s) \in whitespace THEN trimStart(Tail(s)) ELSE s

RECURSIVE trimEnd(_)
trimEnd(s) ==
  IF s # <<>> /\ s[Len(s)] \in whitespace THEN trimEnd(SubSeq(s, 1, Len(s) - 1)) ELSE s

\* String.prototype.trim
trim(s) == trimEnd(trimStart(s))

\* s.replaceAll(c, "") for a one-character pattern c
replaceAll(s, c) == SelectSeq(s, LAMBDA x : x # c)

\* Array.prototype.join(",") over an array of character strings
RECURSIVE join(_)
join(a) ==
  IF a = <<>> THEN <<>>
  ELSE IF Len(a) = 1 THEN a[1]
  ELSE a[1] \o <<",">> \o join(Tail(a))

\* String.prototype.split(c) for a one-character separator c
RECURSIVE split(_, _)
split(s, c) ==
  IF \E i \in 1..Len(s) : s[i] = c
  THEN LET k == CHOOSE i \in 1..Len(s) :
                  s[i] = c /\ \A j \in 1..(i - 1) : s[j] # c
       IN <<SubSeq(s, 1, k - 1)>> \o split(SubSeq(s, k + 1, Len(s)), c)
  ELSE <<s>>

\* String(v)
String(v) ==
  CASE v.t = "str" -> v.s
    [] v.t = "undef" -> cUndefined
    [] v.t = "arr" -> join([i \in 1..Len(v.a) |->
                              IF v.a[i].t = "str" THEN v.a[i].s ELSE <<>>])
    [] OTHER -> cObjectObject

\* /^RRULE:/i.test(v): the argument is converted with String first
testRRULE(v) ==
  LET s == String(v)
  IN Len(s) >= Len(cRRULE) /\ toUpperCase(SubSeq(s, 1, Len(cRRULE))) = cRRULE

\* /^\d{8}$/.test(s)
testEightDigits(s) == Len(s) = 8 /\ \A i \in 1..8 : s[i] \in digits

AllDigits(s, from, to) == \A i \in from..to : s[i] \in digits

\* the local part "YYYY-MM-DDTHH:mm" of an ISO 8601 date-time
IsoMinutes(s) ==
  /\ Len(s) >= 16
  /\ AllDigits(s, 1, 4) /\ s[5] = "-" /\ AllDigits(s, 6, 7) /\ s[8] = "-"
  /\ AllDigits(s, 9, 10) /\ s[11] = "T" /\ AllDigits(s, 12, 13)
  /\ s[14] = ":" /\ AllDigits(s, 15, 16)

\* whether new Date(s) is a valid date, for the shapes the clients send:
\* "YYYY-MM-DDTHH:mm", "YYYY-MM-DDTHH:mm:ss" and "YYYY-MM-DDTHH:mm:ss.sssZ"
dateParses(s) ==
  /\ IsoMinutes(s)
  /\ \/ Len(s) = 16
     \/ Len(s) = 19 /\ s[17] = ":" /\ AllDigits(s, 18, 19)
     \/ /\ Len(s) = 24 /\ s[17] = ":" /\ AllDigits(s, 18, 19)
        /\ s[20] = "." /\ AllDigits(s, 21, 23) /\ s[24] = "Z"

\* new Date(v).toISOString(): a RangeError for an invalid date; a string
\* without a zone designator is read in the process's local zone, which
\* is UTC on the hosting platform
toISOString(v) ==
  LET s == String(v)
  IN IF ~dateParses(s) THEN Throw("Invalid time value")
     ELSE IF Len(s) = 16 THEN Ok(Str(s \o cZeroSec \o cMillisZ))
     ELSE IF Len(s) = 19 THEN Ok(Str(s \o cMillisZ))
     ELSE Ok(Str(s))

---------------------------------------------------------------------------
(* Helpers shared by the handler variants. *)

ORIGINS == {"https://embedded-purdue.github.io", "http://localhost:3000"}

FallbackTZ ==
  <<"A","m","e","r","i","c","a","/","I","n","d","i","a","n","a","/","I","n","d","i","a","n","a","p","o","l","i","s">>

\* the header map h with header n set to v
setHeader(h, n, v) == [x \in (DOMAIN h) \cup {n} |-> IF x = n THEN v ELSE h[x]]

NoHeaders == [x \in {} |-> ""]

\* allowCors without the allow-list: any Origin header is echoed
allowCorsAnyOrigin(r) ==
  LET origin == r.origin
      h0 == IF origin # ""
            THEN setHeader(setHeader(NoHeaders, "Access-Control-Allow-Origin", origin),
                           "Vary", "Origin")
            ELSE NoHeaders
  IN setHeader(setHeader(h0, "Access-Control-Allow-Methods", "GET, POST, OPTIONS"),
               "Access-Control-Allow-Headers", "Content-Type")

\* String(req.headers.origin || ""): an absent Origin header is ""
allowCors(r) ==
  LET origin == r.origin
      h0 == IF origin \in ORIGINS
            THEN setHeader(setHeader(NoHeaders, "Access-Control-Allow-Origin", origin),
                           "Vary", "Origin")
            ELSE NoHeaders
  IN setHeader(setHeader(h0, "Access-Control-Allow-Methods", "GET, POST, OPTIONS"),
               "Access-Control-Allow-Headers", "Content-Type")

\* the same policy written inline in the POST-only handler
allowCorsInline(r) ==
  LET origin == r.origin
      h0 == IF origin \in ORIGINS
            THEN setHeader(setHeader(NoHeaders, "Access-Control-Allow-Origin", origin),
                           "Vary", "Origin")
            ELSE NoHeaders
  IN setHeader(setHeader(h0, "Access-Control-Allow-Methods", "POST, OPTIONS"),
               "Access-Control-Allow-Headers", "Content-Type")

\* mustEnv / assertEnv: an unset or empty setting throws
mustEnv(e, name) ==
  IF e[name] = <<>> THEN Throw("Missing env: " \o name) ELSE Ok(e[name])

\* process.env.NAME read without a check: undefined when unset
envValue(e, name) == IF e[name] = <<>> THEN Undef ELSE Str(e[name])

\* process.env.TIMEZONE || "America/Indiana/Indianapolis"
timeZoneOrDefault(e) == IF e["TIMEZONE"] # <<>> THEN e["TIMEZONE"] ELSE FallbackTZ

\* key.replace(/\\n/g, "\n"): every backslash followed by n becomes a newline
RECURSIVE unescapeNewlines(_)
unescapeNewlines(s) ==
  IF s = <<>> THEN <<>>
  ELSE IF Len(s) >= 2 /\ s[1] = "\\" /\ s[2] = "n"
       THEN <<"\n">> \o unescapeNewlines(SubSeq(s, 3, Len(s)))
       ELSE <<s[1]>> \o unescapeNewlines(Tail(s))

\* calendarClient of the handlers that check their configuration; read is
\* the set of settings it looked up
calendarClient(e) ==
  LET email == mustEnv(e, "GOOGLE_SA_EMAIL")
      key == mustEnv(e, "GOOGLE_SA_PRIVATE_KEY")
  IN IF ~email.ok
     THEN [ok |-> FALSE, err |-> email.err, read |-> {"GOOGLE_SA_EMAIL"}]
     ELSE IF ~key.ok
     THEN [ok |-> FALSE, err |-> key.err,
           read |-> {"GOOGLE_SA_EMAIL", "GOOGLE_SA_PRIVATE_KEY"}]
     ELSE [ok |-> TRUE,
           v |-> [email |-> Str(email.v), key |-> Str(unescapeNewlines(key.v)),
                  scope |-> "https://www.googleapis.com/auth/calendar.events"],
           read |-> {"GOOGLE_SA_EMAIL", "GOOGLE_SA_PRIVATE_KEY"}]

\* cal() of the diagnostic handler: the same with the wider scope
cal(e) ==
  LET email == mustEnv(e, "GOOGLE_SA_EMAIL")
      key == mustEnv(e, "GOOGLE_SA_PRIVATE_KEY")
  IN IF ~email.ok
     THEN [ok |-> FALSE, err |-> email.err, read |-> {"GOOGLE_SA_EMAIL"}]
     ELSE IF ~key.ok
     THEN [ok |-> FALSE, err |-> key.err,
           read |-> {"GOOGLE_SA_EMAIL", "GOOGLE_SA_PRIVATE_KEY"}]
     ELSE [ok |-> TRUE,
           v |-> [email |-> Str(email.v), key |-> Str(unescapeNewlines(key.v)),
                  scope |-> "https://www.googleapis.com/auth/calendar"],
           read |-> {"GOOGLE_SA_EMAIL", "GOOGLE_SA_PRIVATE_KEY"}]

\* calendarClient of the POST-only handler: the settings are used as they
\* are (non-null assertions only), and String(undefined) is "undefined"
calendarClientUnchecked(e) ==
  [ok |-> TRUE,
   v |-> [email |-> envValue(e, "GOOGLE_SA_EMAIL"),
          key |-> Str(unescapeNewlines(String(envValue(e, "GOOGLE_SA_PRIVATE_KEY")))),
          scope |-> "https://www.googleapis.com/auth/calendar.events"],
   read |-> {"GOOGLE_SA_EMAIL", "GOOGLE_SA_PRIVATE_KEY"}]

\* req.body ?? {} and req.body || {}: the fields of a missing body are undefined
EmptyBody ==
  [t |-> "obj", title |-> Undef, start |-> Undef, end |-> Undef, location |-> Undef,
   desc |-> Undef, recurrence |-> Undef, exDates |-> Undef]

bodyOrEmpty(b) == IF b.t = "undef" THEN EmptyBody ELSE b

\* the required-field check without its last operand
missingFieldsNoEnd(b) == ~Truthy(b.title) \/ ~Truthy(b.start)

\* !title || !start || !end
missingFields(b) == ~Truthy(b.title) \/ ~Truthy(b.start) \/ ~Truthy(b.end)

\* response bodies: res.end(), res.send(text), res.json(value)
EndBody == [kind |-> "end"]
Text(m) == [kind |-> "text", text |-> m]
Json(v) == [kind |-> "json", json |-> v]

\* the outcome of a handler's synchronous part: a response, or the upstream
\* call it awaits
Responded(h, read, status, body) ==
  [kind |-> "respond", headers |-> h, read |-> read, status |-> status, body |-> body]
Calling(h, read, op, auth, params) ==
  [kind |-> "call", headers |-> h, read |-> read,
   call |-> [op |-> op, auth |-> auth, params |-> params]]

\* the catch block of the event-creation handlers: always status 500
catchCreate(err) ==
  LET msg == IF err.envelope # "" THEN err.envelope
             ELSE IF err.message # "" THEN err.message
             ELSE "Internal error"
  IN [status |-> 500, body |-> Text(msg)]

\* the catch block of the POST-only handler: e.message || "error"
catchPostOnly(err) ==
  [status |-> 500, body |-> Text(IF err.message # "" THEN err.message ELSE "error")]

\* the catch block of the diagnostic handler: err.response.status || 500
catchDiag(err) ==
  LET msg == IF err.envelope # "" THEN err.envelope
             ELSE IF err.message # "" THEN err.message
             ELSE "Error"
      code == IF err.status # 0 THEN err.status ELSE 500
  IN [status |-> code, body |-> Json([ok |-> FALSE, error |-> msg])]

---------------------------------------------------------------------------
(* Recurrence, exception dates and date normalisation. *)

\* buildTimedExDateLines(exDates, startLocal, tz) of version 3: every given
\* date is stamped with the start's time of day; nothing is filtered
buildTimedExDateLines(exDates, startLocal, tz) ==
  IF exDates.t # "arr" \/ exDates.a = <<>> THEN Ok(<<>>)
  ELSE IF startLocal.t # "str" THEN Throw("startLocal.split is not a function")
  ELSE
    LET parts == split(startLocal.s, "T")
        timePart == IF Len(parts) >= 2 THEN parts[2] ELSE cMidnight
        hhmmss == IF Len(timePart) = 5 THEN timePart \o cZeroSec ELSE timePart
        stamp(d) == replaceAll(d.s, "-") \o <<"T">> \o replaceAll(hhmmss, ":")
        stamps == [i \in 1..Len(exDates.a) |-> stamp(exDates.a[i])]
    IN Ok(<<Str(cExTzid \o tz \o <<":">> \o join(stamps))>>)

\* buildExDateLine(exDates) of version 2: an all-day VALUE=DATE line of the
\* dates that are eight digits once the dashes are removed, or null
buildExDateLine(exDates) ==
  IF exDates.t # "arr" \/ exDates.a = <<>> THEN Undef
  ELSE
    LET mapped == [i \in 1..Len(exDates.a) |-> replaceAll(exDates.a[i].s, "-")]
        dates == SelectSeq(mapped, testEightDigits)
    IN IF dates = <<>> THEN Undef ELSE Str(cExValue \o join(dates))

\* version 3: the lines that begin with RRULE: (any case), trimmed
recurrenceLinesV3(recurrence) ==
  IF recurrence.t = "arr"
  THEN LET kept == SelectSeq(recurrence.a, testRRULE)
       IN [i \in 1..Len(kept) |-> Str(trim(kept[i].s))]
  ELSE IF recurrence.t = "str" /\ testRRULE(recurrence)
  THEN <<Str(trim(recurrence.s))>>
  ELSE <<>>

\* version 2: recurrence is taken for a string; an array is converted by
\* the regular expression test and then has no toUpperCase method
recurrenceLinesV2(recurrence) ==
  IF Truthy(recurrence) /\ testRRULE(recurrence)
  THEN IF recurrence.t = "str"
       THEN Ok(<<Str(toUpperCase(recurrence.s))>>)
       ELSE Throw("recurrence.toUpperCase is not a function")
  ELSE Ok(<<>>)

\* normalizeDateInput that reads a structured dateTime as an instant, the
\* way it reads a plain string
normalizeDateInputToInstant(input, fallbackTZ) ==
  IF input.t = "obj"
  THEN LET iso == toISOString(input.dateTime)
           timeZone == IF Truthy(input.timeZone) THEN String(input.timeZone)
                       ELSE fallbackTZ
       IN IF ~iso.ok THEN Throw("Invalid time value")
          ELSE Ok([dateTime |-> iso.v, timeZone |-> Str(timeZone)])
  ELSE IF input.t = "str"
  THEN LET iso == toISOString(input)
       IN IF ~iso.ok THEN Throw("Invalid time value")
          ELSE Ok([dateTime |-> iso.v, timeZone |-> Str(fallbackTZ)])
  ELSE Throw("Invalid time value")

\* normalizeDateInput(input, fallbackTZ)
normalizeDateInput(input, fallbackTZ) ==
  IF input.t = "obj"
  THEN LET dateTime == String(input.dateTime)
           timeZone == IF Truthy(input.timeZone) THEN String(input.timeZone)
                       ELSE fallbackTZ
       IN IF dateTime = <<>> THEN Throw("Invalid dateTime")
          ELSE Ok([dateTime |-> Str(dateTime), timeZone |-> Str(timeZone)])
  ELSE IF input.t = "str"
  THEN LET iso == toISOString(input)
       IN IF ~iso.ok THEN Throw("Invalid time value")
          ELSE Ok([dateTime |-> iso.v, timeZone |-> Str(fallbackTZ)])
  ELSE Throw("Invalid time value")

---------------------------------------------------------------------------
(* The handlers, each from the request to its response or first await. *)

StatusPayload(version) == [ok |-> TRUE, route |-> "/api/events", version |-> version]

Caught(h, read, c) == Responded(h, read, c.status, c.body)

\* version 3, the body of the POST branch (events.ts:64-106)
createV3(r, e, h) ==
  LET CALENDAR_ID == mustEnv(e, "CALENDAR_ID")
      TZ == timeZoneOrDefault(e)
      read1 == {"CALENDAR_ID", "TIMEZONE"}
      b == bodyOrEmpty(r.body)
      client == calendarClient(e)
      read2 == read1 \cup client.read
      recurrenceLines == recurrenceLinesV3(b.recurrence)
      ex == buildTimedExDateLines(b.exDates, b.start, TZ)
  IN IF ~CALENDAR_ID.ok THEN Caught(h, {"CALENDAR_ID"}, catchCreate(CALENDAR_ID.err))
     ELSE IF missingFields(b)
     THEN Responded(h, read1, 400, Text("Missing title/start/end"))
     ELSE IF ~client.ok THEN Caught(h, read2, catchCreate(client.err))
     ELSE IF ~ex.ok THEN Caught(h, read2, catchCreate(ex.err))
     ELSE Calling(h, read2, "events.insert", client.v,
            [calendarId |-> Str(CALENDAR_ID.v),
             requestBody |->
               [summary |-> b.title, description |-> b.desc, location |-> b.location,
                start |-> [dateTime |-> b.start, timeZone |-> Str(TZ)],
                end |-> [dateTime |-> b.end, timeZone |-> Str(TZ)],
                recurrence |-> IF recurrenceLines \o ex.v # <<>>
                               THEN Arr(recurrenceLines \o ex.v) ELSE Undef]])

\* version 3 with the calendar identifier looked up before the method check
handlerV3EnvFirst(r, e) ==
  LET h == allowCors(r)
      CALENDAR_ID == mustEnv(e, "CALENDAR_ID")
  IN IF ~CALENDAR_ID.ok THEN Caught(h, {"CALENDAR_ID"}, catchCreate(CALENDAR_ID.err))
     ELSE IF r.method = "OPTIONS" THEN Responded(h, {"CALENDAR_ID"}, 204, EndBody)
     ELSE IF r.method = "GET" THEN Responded(h, {"CALENDAR_ID"}, 200, Json(StatusPayload(3)))
     ELSE IF r.method # "POST" THEN Responded(h, {"CALENDAR_ID"}, 405, Text("Use POST"))
     ELSE createV3(r, e, h)

\* version 3 (events.ts:57)
handlerV3(r, e) ==
  LET h == allowCors(r)
  IN IF r.method = "OPTIONS" THEN Responded(h, {}, 204, EndBody)
     ELSE IF r.method = "GET" THEN Responded(h, {}, 200, Json(StatusPayload(3)))
     ELSE IF r.method # "POST" THEN Responded(h, {}, 405, Text("Use POST"))
     ELSE createV3(r, e, h)

\* version 1, the try block (events.ts:166-197)
createV1(r, e, h) ==
  LET CALENDAR_ID == mustEnv(e, "CALENDAR_ID")
      TZ == timeZoneOrDefault(e)
      read1 == {"CALENDAR_ID", "TIMEZONE"}
      b == bodyOrEmpty(r.body)
      client == calendarClient(e)
      read2 == read1 \cup client.read
      start == toISOString(b.start)
      end == toISOString(b.end)
  IN IF ~CALENDAR_ID.ok THEN Caught(h, {"CALENDAR_ID"}, catchCreate(CALENDAR_ID.err))
     ELSE IF missingFields(b)
     THEN Responded(h, read1, 400, Text("Missing title/start/end"))
     ELSE IF ~client.ok THEN Caught(h, read2, catchCreate(client.err))
     ELSE IF ~start.ok THEN Caught(h, read2, catchCreate(start.err))
     ELSE IF ~end.ok THEN Caught(h, read2, catchCreate(end.err))
     ELSE Calling(h, read2, "events.insert", client.v,
            [calendarId |-> Str(CALENDAR_ID.v),
             requestBody |->
               [summary |-> b.title, description |-> b.desc, location |-> b.location,
                start |-> [dateTime |-> start.v, timeZone |-> Str(TZ)],
                end |-> [dateTime |-> end.v, timeZone |-> Str(TZ)],
                recurrence |-> Undef]])

\* version 1 without the health-check branch
handlerV1NoGet(r, e) ==
  LET h == allowCors(r)
  IN IF r.method = "OPTIONS" THEN Responded(h, {}, 204, EndBody)
     ELSE IF r.method # "POST" THEN Responded(h, {}, 405, Text("Use POST"))
     ELSE createV1(r, e, h)

\* version 1 (events.ts:155)
handlerV1(r, e) ==
  LET h == allowCors(r)
  IN IF r.method = "OPTIONS" THEN Responded(h, {}, 204, EndBody)
     ELSE IF r.method = "GET" THEN Responded(h, {}, 200, Json(StatusPayload(1)))
     ELSE IF r.method # "POST" THEN Responded(h, {}, 405, Text("Use POST"))
     ELSE createV1(r, e, h)

\* version 2, the body of the POST branch (events.ts:265-291)
createV2(r, e, h) ==
  LET CALENDAR_ID == mustEnv(e, "CALENDAR_ID")
      TZ == timeZoneOrDefault(e)
      read1 == {"CALENDAR_ID", "TIMEZONE"}
      b == bodyOrEmpty(r.body)
      client == calendarClient(e)
      read2 == read1 \cup client.read
      rule == recurrenceLinesV2(b.recurrence)
      exdateLine == buildExDateLine(b.exDates)
      recurrenceLines == rule.v \o (IF Truthy(exdateLine) THEN <<exdateLine>> ELSE <<>>)
      start == toISOString(b.start)
      end == toISOString(b.end)
  IN IF ~CALENDAR_ID.ok THEN Caught(h, {"CALENDAR_ID"}, catchCreate(CALENDAR_ID.err))
     ELSE IF missingFields(b)
     THEN Responded(h, read1, 400, Text("Missing title/start/end"))
     ELSE IF ~client.ok THEN Caught(h, read2, catchCreate(client.err))
     ELSE IF ~rule.ok THEN Caught(h, read2, catchCreate(rule.err))
     ELSE IF ~start.ok THEN Caught(h, read2, catchCreate(start.err))
     ELSE IF ~end.ok THEN Caught(h, read2, catchCreate(end.err))
     ELSE Calling(h, read2, "events.insert", client.v,
            [calendarId |-> Str(CALENDAR_ID.v),
             requestBody |->
               [summary |-> b.title, description |-> b.desc, location |-> b.location,
                start |-> [dateTime |-> start.v, timeZone |-> Str(TZ)],
                end |-> [dateTime |-> end.v, timeZone |-> Str(TZ)],
                recurrence |-> IF recurrenceLines # <<>>
                               THEN Arr(recurrenceLines) ELSE Undef]])

\* version 2 (events.ts:255)
handlerV2(r, e) ==
  LET h == allowCors(r)
  IN IF r.method = "OPTIONS" THEN Responded(h, {}, 204, EndBody)
     ELSE IF r.method = "GET" THEN Responded(h, {}, 200, Json(StatusPayload(2)))
     ELSE IF r.method # "POST" THEN Responded(h, {}, 405, Text("Use POST"))
     ELSE createV2(r, e, h)

\* version 2 with normalizeDateInput, the try block (events.ts:367-397)
createDates(r, e, h) ==
  LET CALENDAR_ID == mustEnv(e, "CALENDAR_ID")
      DEFAULT_TZ == timeZoneOrDefault(e)
      read1 == {"CALENDAR_ID", "TIMEZONE"}
      body == bodyOrEmpty(r.body)
      start == normalizeDateInput(body.start, DEFAULT_TZ)
      end == normalizeDateInput(body.end, DEFAULT_TZ)
      recurrence == IF body.recurrence.t = "arr" THEN body.recurrence ELSE Arr(<<>>)
      client == calendarClient(e)
      read2 == read1 \cup client.read
  IN IF ~CALENDAR_ID.ok THEN Caught(h, {"CALENDAR_ID"}, catchCreate(CALENDAR_ID.err))
     ELSE IF missingFields(body)
     THEN Responded(h, read1, 400, Text("Missing title/start/end"))
     ELSE IF ~start.ok THEN Caught(h, read1, catchCreate(start.err))
     ELSE IF ~end.ok THEN Caught(h, read1, catchCreate(end.err))
     ELSE IF ~client.ok THEN Caught(h, read2, catchCreate(client.err))
     ELSE Calling(h, read2, "events.insert", client.v,
            [calendarId |-> Str(CALENDAR_ID.v),
             requestBody |->
               [summary |-> body.title, description |-> body.desc,
                location |-> body.location,
                start |-> start.v, end |-> end.v, recurrence |-> recurrence]])

\* version 2 with normalizeDateInput (events.ts:358)
handlerDates(r, e) ==
  LET h == allowCors(r)
  IN IF r.method = "OPTIONS" THEN Responded(h, {}, 204, EndBody)
     ELSE IF r.method = "GET" THEN Responded(h, {}, 200, Json(StatusPayload(2)))
     ELSE IF r.method # "POST" THEN Responded(h, {}, 405, Text("Use POST"))
     ELSE createDates(r, e, h)

\* the POST-only handler, the try block (part_001:30-44): no setting is
\* checked, and the arguments of insert are evaluated in order
createPostOnly(r, e, h) ==
  LET b == bodyOrEmpty(r.body)
      client == calendarClientUnchecked(e)
      read1 == client.read \cup {"CALENDAR_ID"}
      read2 == read1 \cup {"TIMEZONE"}
      start == toISOString(b.start)
      end == toISOString(b.end)
  IN IF missingFields(b) THEN Responded(h, {}, 400, Text("Missing title/start/end"))
     ELSE IF ~start.ok THEN Caught(h, read1, catchPostOnly(start.err))
     ELSE IF ~end.ok THEN Caught(h, read2, catchPostOnly(end.err))
     ELSE Calling(h, read2, "events.insert", client.v,
            [calendarId |-> envValue(e, "CALENDAR_ID"),
             requestBody |->
               [summary |-> b.title, description |-> b.desc, location |-> b.location,
                start |-> [dateTime |-> start.v, timeZone |-> Str(timeZoneOrDefault(e))],
                end |-> [dateTime |-> end.v, timeZone |-> Str(timeZoneOrDefault(e))],
                recurrence |-> Undef]])

\* the POST-only handler (part_001:19): GET is not a method it serves
handlerPostOnly(r, e) ==
  LET h == allowCorsInline(r)
  IN IF r.method = "OPTIONS" THEN Responded(h, {}, 204, EndBody)
     ELSE IF r.method # "POST" THEN Responded(h, {}, 405, Text("Use POST"))
     ELSE createPostOnly(r, e, h)

\* version 1 with mustEnv, the try block (part_002:45-64)
createP2(r, e, h) ==
  LET CALENDAR_ID == mustEnv(e, "CALENDAR_ID")
      TZ == timeZoneOrDefault(e)
      read1 == {"CALENDAR_ID", "TIMEZONE"}
      b == bodyOrEmpty(r.body)
      client == calendarClient(e)
      read2 == read1 \cup client.read
      start == toISOString(b.start)
      end == toISOString(b.end)
  IN IF ~CALENDAR_ID.ok THEN Caught(h, {"CALENDAR_ID"}, catchCreate(CALENDAR_ID.err))
     ELSE IF missingFields(b)
     THEN Responded(h, read1, 400, Text("Missing title/start/end"))
     ELSE IF ~client.ok THEN Caught(h, read2, catchCreate(client.err))
     ELSE IF ~start.ok THEN Caught(h, read2, catchCreate(start.err))
     ELSE IF ~end.ok THEN Caught(h, read2, catchCreate(end.err))
     ELSE Calling(h, read2, "events.insert", client.v,
            [calendarId |-> Str(CALENDAR_ID.v),
             requestBody |->
               [summary |-> b.title, description |-> b.desc, location |-> b.location,
                start |-> [dateTime |-> start.v, timeZone |-> Str(TZ)],
                end |-> [dateTime |-> end.v, timeZone |-> Str(TZ)],
                recurrence |-> Undef]])

\* version 1 with mustEnv (part_002:36)
handlerP2(r, e) ==
  LET h == allowCors(r)
  IN IF r.method = "OPTIONS" THEN Responded(h, {}, 204, EndBody)
     ELSE IF r.method = "GET" THEN Responded(h, {}, 200, Json(StatusPayload(1)))
     ELSE IF r.method # "POST" THEN Responded(h, {}, 405, Text("Use POST"))
     ELSE createP2(r, e, h)

\* the diagnostic handler up to its first await (part_000:19-25): no
\* origin policy and no method check
handlerDiag(r, e) ==
  LET CALENDAR_ID == mustEnv(e, "CALENDAR_ID")
      c == cal(e)
      read == {"CALENDAR_ID"} \cup c.read
  IN IF ~CALENDAR_ID.ok
     THEN Caught(NoHeaders, {"CALENDAR_ID"}, catchDiag(CALENDAR_ID.err))
     ELSE IF ~c.ok THEN Caught(NoHeaders, read, catchDiag(c.err))
     ELSE Calling(NoHeaders, read, "calendars.get", c.v,
                  [calendarId |-> Str(CALENDAR_ID.v)])

EventHandlers == {"v3", "v1", "v2", "dates", "postOnly", "p2"}
Handlers == EventHandlers \cup {"diag"}

\* the serverless route of each handler variant
Dispatch(hd, r, e) ==
  CASE hd = "v3" -> handlerV3(r, e)
    [] hd = "v1" -> handlerV1(r, e)
    [] hd = "v2" -> handlerV2(r, e)
    [] hd = "dates" -> handlerDates(r, e)
    [] hd = "postOnly" -> handlerPostOnly(r, e)
    [] hd = "p2" -> handlerP2(r, e)
    [] hd = "diag" -> handlerDiag(r, e)

\* the catch block of each handler variant
catchOf(hd, err) ==
  CASE hd = "postOnly" -> catchPostOnly(err)
    [] hd = "diag" -> catchDiag(err)
    [] OTHER -> catchCreate(err)

\* res.status(200).json({ id, htmlLink }); the POST-only handler names the
\* second field link
created(hd, inserted) ==
  [status |-> 200,
   body |-> Json(IF hd = "postOnly"
                 THEN [id |-> inserted.id, link |-> inserted.htmlLink]
                 ELSE [id |-> inserted.id, htmlLink |-> inserted.htmlLink])]

---------------------------------------------------------------------------
(* The requests, configurations and upstream outcomes of the model. *)

sTitle == <<"T">>
sStartFull ==
  <<"2","0","2","5","-","0","9","-","2","1","T","1","6",":","0","0",":","0","0">>
sStartShort ==
  <<"2","0","2","5","-","0","9","-","2","1","T","1","6",":","0","0">>
sEndFull ==
  <<"2","0","2","5","-","0","9","-","2","1","T","1","7",":","0","0",":","0","0">>
sGarbage == <<"g","a","r","b","a","g","e">>
sRuleExample ==
  <<"r","r","u","l","e",":"," ","f","r","e","q","=","w","e","e","k","l","y",";","i","n","t","e","r","v","a","l","=","1",";","b","y","d","a","y","=","s","u">>
sRuleDaily == <<"R","R","U","L","E",":","F","R","E","Q","=","D","A","I","L","Y">>
sNotARule == <<"n","o","t"," ","a"," ","r","u","l","e">>
sDate1 == <<"2","0","2","5","-","1","0","-","0","5">>
sDate2 == <<"2","0","2","5","-","1","0","-","1","2">>
sDateBad == <<"o","o","p","s">>
sEmail == <<"s","a","@","x">>
sKeyEscaped == <<"k","\\","n","k">>
sCalId == <<"c","a","l">>
sTzUTC == <<"U","T","C">>

\* the sequences of distinct elements of S of length at most n
SeqsNoRepeat(S, n) ==
  {q \in UNION {[1..k -> S] : k \in 0..n} :
     \A i, j \in 1..Len(q) : i # j => q[i] # q[j]}

Methods == {"OPTIONS", "GET", "POST", "PUT"}
OriginValues ==
  {"", "https://embedded-purdue.github.io", "http://localhost:3000",
   "https://evil.example"}

Body(title, start, end, recurrence, exDates) ==
  [t |-> "obj", title |-> title, start |-> start, end |-> end, location |-> Undef,
   desc |-> Undef, recurrence |-> recurrence, exDates |-> exDates]

RuleStrings == {Str(sRuleExample), Str(sRuleDaily), Str(sNotARule)}
DateStrings == {Str(sDate1), Str(sDate2), Str(sDateBad)}
Recurrences ==
  {Undef} \cup RuleStrings \cup {Arr(q) : q \in SeqsNoRepeat(RuleStrings, MaxLines)}
ExDateLists == {Undef} \cup {Arr(q) : q \in SeqsNoRepeat(DateStrings, MaxExDates)}

\* start and end as the clients send them: local strings with and without
\* seconds, an unparseable string, and the structured shape
DatePairs ==
  {<<Str(sStartFull), Str(sEndFull)>>,
   <<Str(sStartShort), Str(sEndFull)>>,
   <<Str(sGarbage), Str(sEndFull)>>,
   <<Str(sStartFull), Str(sGarbage)>>,
   <<DateObj(Str(sStartFull), Str(sTzUTC)), DateObj(Str(sEndFull), Str(sTzUTC))>>,
   <<DateObj(Str(sStartFull), Undef), DateObj(Str(sEndFull), Undef)>>}

\* every method and origin, with bodies that have or lack the required fields
GateRequests ==
  {[method |-> m, origin |-> o, body |-> b] :
     m \in Methods, o \in OriginValues,
     b \in {Undef} \cup
           {Body(t, s, e, Undef, Undef) :
              t \in {Undef, Str(<<>>), Str(sTitle)},
              s \in {Undef, Str(sStartFull)},
              e \in {Undef, Str(sEndFull)}}}

\* bodies lacking a required field that carry recurrence input
PartialRequests ==
  {[method |-> "POST", origin |-> "http://localhost:3000",
    body |-> Body(t, s, e, Str(sRuleDaily), Arr(<<Str(sDate1), Str(sDate2)>>))] :
     t \in {Undef, Str(sTitle)},
     s \in {Undef, Str(sStartFull)},
     e \in {Undef, Str(sEndFull)}}

\* complete bodies with every recurrence input, and with every exDates list
EventRequests ==
  {[method |-> "POST", origin |-> "https://embedded-purdue.github.io",
    body |-> Body(Str(sTitle), d[1], d[2], x[1], x[2])] :
     d \in DatePairs,
     x \in (Recurrences \X {Undef, Arr(<<Str(sDate1), Str(sDate2)>>)})
           \cup ({Undef, Str(sRuleDaily)} \X ExDateLists)}

Requests == GateRequests \cup PartialRequests \cup EventRequests

Settings == {"CALENDAR_ID", "GOOGLE_SA_EMAIL", "GOOGLE_SA_PRIVATE_KEY", "TIMEZONE"}

\* every combination of set and unset settings
Envs ==
  {[n \in Settings |->
      IF n \notin set THEN <<>>
      ELSE CASE n = "CALENDAR_ID" -> sCalId
             [] n = "GOOGLE_SA_EMAIL" -> sEmail
             [] n = "GOOGLE_SA_PRIVATE_KEY" -> sKeyEscaped
             [] n = "TIMEZONE" -> sTzUTC] :
     set \in SUBSET Settings}

\* err.response.status (0 when absent), err.response.data.error.message and
\* err.message ("" when absent) of a failed upstream call
UpstreamErrors ==
  {[status |-> 403, envelope |-> "Forbidden",
    message |-> "Request failed with status code 403"],
   [status |-> 404, envelope |-> "", message |-> "Not Found"],
   [status |-> 0, envelope |-> "", message |-> "socket hang up"],
   [status |-> 0, envelope |-> "", message |-> ""]}

\* inserted.data of a successful insert
Inserted == [id |-> "evt1", htmlLink |-> "https://calendar.example/evt1"]
\* meta.data of calendars.get
Meta == [summary |-> "Events"]
\* list.data.items of events.list: undefined, or an array of that length
ItemCounts == {Undef, Arr(<<>>), Arr(<<Str(sTitle)>>)}

NoReq == [method |-> "", origin |-> "", body |-> Undef]
NoResp == [status |-> 0, body |-> [kind |-> "none"]]
NoErr == [status |-> 0, envelope |-> "", message |-> "none"]

---------------------------------------------------------------------------
(* The state machine. *)

Init ==
  /\ env \in Envs
  /\ handler = "none"
  /\ req = NoReq
  /\ pc = "idle"
  /\ headers = NoHeaders
  /\ resp = NoResp
  /\ calls = <<>>
  /\ envRead = {}
  /\ rejected = NoErr

\* a request arrives and its handler runs to its response or first await
Request(hd, r) ==
  /\ pc = "idle"
  /\ LET out == Dispatch(hd, r, env)
     IN /\ handler' = hd
        /\ req' = r
        /\ headers' = out.headers
        /\ envRead' = out.read
        /\ IF out.kind = "respond"
           THEN /\ resp' = [status |-> out.status, body |-> out.body]
                /\ calls' = <<>>
                /\ pc' = "done"
           ELSE /\ resp' = NoResp
                /\ calls' = <<out.call>>
                /\ pc' = IF out.call.op = "events.insert" THEN "awaitInsert"
                         ELSE "awaitGet"
  /\ UNCHANGED <<env, rejected>>

\* cal.events.insert resolves: the handler answers 200 with id and link
InsertResolves ==
  /\ pc = "awaitInsert"
  /\ resp' = created(handler, Inserted)
  /\ pc' = "done"
  /\ UNCHANGED <<env, handler, req, headers, calls, envRead, rejected>>

\* a catch block that issues the insert once more before it gives up
InsertRejectsRetry(err) ==
  /\ pc = "awaitInsert"
  /\ rejected' = err
  /\ IF Len(calls) < 2
     THEN /\ calls' = Append(calls, calls[1])
          /\ UNCHANGED <<resp, pc>>
     ELSE /\ resp' = catchOf(handler, err)
          /\ pc' = "done"
          /\ UNCHANGED calls
  /\ UNCHANGED <<env, handler, req, headers, envRead>>

\* cal.events.insert rejects: the catch block answers, nothing is retried
InsertRejects(err) ==
  /\ pc = "awaitInsert"
  /\ rejected' = err
  /\ resp' = catchOf(handler, err)
  /\ pc' = "done"
  /\ UNCHANGED <<env, handler, req, headers, calls, envRead>>

\* calendars.get resolves: the diagnostic handler goes on to events.list
GetResolves ==
  /\ pc = "awaitGet"
  /\ calls' = Append(calls,
                [op |-> "events.list", auth |-> calls[1].auth,
                 params |-> [calendarId |-> calls[1].params.calendarId,
                             maxResults |-> 1, singleEvents |-> TRUE]])
  /\ pc' = "awaitList"
  /\ UNCHANGED <<env, handler, req, headers, resp, envRead, rejected>>

\* events.list resolves: list.data.items?.length ?? 0
ListResolves(items) ==
  /\ pc = "awaitList"
  /\ resp' = [status |-> 200,
              body |-> Json([ok |-> TRUE,
                             calendarId |-> calls[1].params.calendarId,
                             calendarSummary |-> Meta.summary,
                             sampleEventCount |->
                               IF items.t = "arr" THEN Len(items.a) ELSE 0])]
  /\ pc' = "done"
  /\ UNCHANGED <<env, handler, req, headers, calls, envRead, rejected>>

\* calendars.get or events.list rejects
DiagRejects(err) ==
  /\ pc \in {"awaitGet", "awaitList"}
  /\ rejected' = err
  /\ resp' = catchOf(handler, err)
  /\ pc' = "done"
  /\ UNCHANGED <<env, handler, req, headers, calls, envRead>>

\* the response is sent; the process keeps nothing of the request
NextRequest ==
  /\ pc = "done"
  /\ handler' = "none"
  /\ req' = NoReq
  /\ pc' = "idle"
  /\ headers' = NoHeaders
  /\ resp' = NoResp
  /\ calls' = <<>>
  /\ envRead' = {}
  /\ rejected' = NoErr
  /\ UNCHANGED env

Next ==
  \/ \E hd \in Handlers, r \in Requests : Request(hd, r)
  \/ InsertResolves
  \/ \E err \in UpstreamErrors : InsertRejects(err)
  \/ GetResolves
  \/ \E items \in ItemCounts : ListResolves(items)
  \/ \E err \in UpstreamErrors : DiagRejects(err)
  \/ NextRequest

Spec == Init /\ [][Next]_vars

---------------------------------------------------------------------------
(* Properties. *)

\* the current request is served by an event-creation handler
ServedByEventHandler == handler \in EventHandlers

\* a body field of the current request (undefined when there is no body)
Field(f) == IF req.body.t = "undef" THEN Undef ELSE req.body[f]

\* a value that is present and not the empty string
NonEmpty(v) == v.t # "undef" /\ (v.t = "str" => Len(v.s) > 0)

LacksRequired ==
  ~NonEmpty(Field("title")) \/ ~NonEmpty(Field("start")) \/ ~NonEmpty(Field("end"))

RequiredSettings == {"CALENDAR_ID", "GOOGLE_SA_EMAIL", "GOOGLE_SA_PRIVATE_KEY"}
Credentials == {"GOOGLE_SA_EMAIL", "GOOGLE_SA_PRIVATE_KEY"}

\* C1 as stated: a POST request to an event-creation handler whose body
\* lacks a non-empty title, start or end is answered 400 and no upstream
\* call occurs, whatever the process configuration is.
C1_MissingFieldAlways400 ==
  (ServedByEventHandler /\ req.method = "POST" /\ LacksRequired)
    => (pc = "done" /\ resp.status = 400 /\ calls = <<>>)

\* C1 amended: for such a request no upstream call occurs and no credential
\* is read; the answer is 400 "Missing title/start/end", except that the
\* handlers that look up CALENDAR_ID before they validate the body (all but
\* the POST-only one) answer 500 "Missing env: CALENDAR_ID" when it is unset.
C1_MissingFieldRejectedBeforeCredentials ==
  (ServedByEventHandler /\ req.method = "POST" /\ LacksRequired)
    => /\ pc = "done"
       /\ calls = <<>>
       /\ envRead \cap Credentials = {}
       /\ IF handler # "postOnly" /\ env["CALENDAR_ID"] = <<>>
          THEN resp = [status |-> 500, body |-> Text("Missing env: CALENDAR_ID")]
          ELSE resp = [status |-> 400, body |-> Text("Missing title/start/end")]

\* C1 witness: version 3 rejects a body without a title with 400 although
\* the service identity email is not configured.
C1_Witness ==
  /\ handler = "v3" /\ req.method = "POST" /\ req.body.t = "obj"
  /\ req.body.title = Undef /\ NonEmpty(req.body.start) /\ NonEmpty(req.body.end)
  /\ env["CALENDAR_ID"] # <<>> /\ env["GOOGLE_SA_EMAIL"] = <<>>
  /\ pc = "done" /\ resp.status = 400

\* C2 as stated: when the insert fails with an error carrying status S and
\* envelope message M the handler answers status S with body M, and 500
\* when the error carries no status.
C2_UpstreamStatusPropagated ==
  (ServedByEventHandler /\ pc = "done" /\ rejected # NoErr)
    => /\ resp.status = (IF rejected.status # 0 THEN rejected.status ELSE 500)
       /\ (rejected.status # 0 /\ rejected.envelope # "")
            => resp.body = Text(rejected.envelope)

\* the date inputs the handler variant parses before the insert, if any
DateAccepted(v) ==
  CASE handler = "v3" -> TRUE
    [] handler = "dates" -> v.t = "obj" \/ (v.t = "str" /\ dateParses(v.s))
    [] OTHER -> v.t = "str" /\ dateParses(v.s)

AllowListed == {"https://embedded-purdue.github.io", "http://localhost:3000"}

ReachesUpstreamStage ==
  \/ handler = "diag"
  \/ ServedByEventHandler /\ req.method = "POST" /\ ~LacksRequired

\* C5 as stated: when a required setting is absent, a request that reaches
\* the upstream-invocation stage fails with an error response and no
\* upstream call is made.
C5_MissingSettingNoUpstreamCall ==
  (ReachesUpstreamStage /\ \E n \in RequiredSettings : env[n] = <<>>)
    => (pc = "done" /\ calls = <<>> /\ resp.status >= 400)

\* C6: every OPTIONS request to an event-creation handler is answered 204
\* with an empty body, whatever its Origin, its body and the configuration
\* are, and no setting is read and no upstream call is made.
C6_OptionsAlways204 ==
  (ServedByEventHandler /\ req.method = "OPTIONS")
    => /\ pc = "done"
       /\ resp = [status |-> 204, body |-> EndBody]
       /\ envRead = {}
       /\ calls = <<>>

\* C6 witness: a preflight from an unlisted origin, with a body, answered
\* 204 by a process that has no setting at all.
C6_Witness ==
  /\ handler = "v3" /\ req.method = "OPTIONS" /\ req.origin = "https://evil.example"
  /\ req.body.t = "obj" /\ \A n \in Settings : env[n] = <<>>
  /\ pc = "done" /\ resp.status = 204

\* the fixed status payload of a health check
IsStatusPayload(body) ==
  /\ body.kind = "json"
  /\ DOMAIN body.json = {"ok", "route", "version"}
  /\ body.json.ok = TRUE
  /\ body.json.route = "/api/events"
  /\ body.json.version \in {1, 2, 3}

\* C7 as stated: every GET request to an event-creation handler is answered
\* 200 with the fixed status payload, and no upstream call is made.
C7_GetAlways200 ==
  (ServedByEventHandler /\ req.method = "GET")
    => (pc = "done" /\ resp.status = 200 /\ IsStatusPayload(resp.body) /\ calls = <<>>)

\* C7 amended: no GET request causes a setting to be read or an upstream
\* call; every event-creation handler answers it 200 with the fixed status
\* payload, except the POST-only handler, which serves POST and OPTIONS
\* only and answers 405 "Use POST".
C7_GetHealthCheckUnlessPostOnly ==
  (ServedByEventHandler /\ req.method = "GET")
    => /\ pc = "done"
       /\ calls = <<>>
       /\ envRead = {}
       /\ IF handler = "postOnly"
          THEN resp = [status |-> 405, body |-> Text("Use POST")]
          ELSE resp.status = 200 /\ IsStatusPayload(resp.body)

\* C7 witness: version 1 answers a GET with the status payload although no
\* setting is configured.
C7_Witness ==
  /\ handler = "v1" /\ req.method = "GET" /\ \A n \in Settings : env[n] = <<>>
  /\ pc = "done" /\ resp.status = 200 /\ IsStatusPayload(resp.body)

\* the request body of the insert the handler awaits
Payload == calls[1].params.requestBody

\* the character strings of the payload's recurrence field (none when omitted)
PayloadLines ==
  IF Payload.recurrence.t = "arr"
  THEN {Payload.recurrence.a[i].s : i \in 1..Len(Payload.recurrence.a)}
  ELSE {}

\* the recurrence lines a request supplies: the string, or the array's elements
InputLines(recurrence) ==
  CASE recurrence.t = "str" -> {recurrence.s}
    [] recurrence.t = "arr" -> {recurrence.a[i].s : i \in 1..Len(recurrence.a)}
    [] OTHER -> {}

StartsWith(s, prefix) == Len(s) >= Len(prefix) /\ SubSeq(s, 1, Len(prefix)) = prefix

\* the rule body of a line: what follows the six characters of the prefix,
\* without whitespace and in upper case
RuleBody(line) ==
  toUpperCase(SelectSeq(SubSeq(line, 7, Len(line)), LAMBDA c : c \notin whitespace))

\* the RRULE check of the specification
PassesRuleCheck(line) ==
  /\ Len(line) >= 6
  /\ toUpperCase(SubSeq(line, 1, 6)) = <<"R","R","U","L","E",":">>
  /\ StartsWith(RuleBody(line), <<"F","R","E","Q","=">>)

\* C8 as stated: every supplied recurrence line that passes the RRULE check
\* is placed in the upstream payload as "RRULE:" followed by its upper-cased,
\* whitespace-stripped rule body.
C8_RuleLinesNormalized ==
  (handler \in {"v3", "v2"} /\ pc = "awaitInsert")
    => \A line \in InputLines(Field("recurrence")) :
         PassesRuleCheck(line)
           => (<<"R","R","U","L","E",":">> \o RuleBody(line)) \in PayloadLines

\* C9 as stated: a POST that supplies recurrence input of which no line
\* passes the RRULE check, and no exception dates, is still inserted, and
\* its payload omits the recurrence field: no empty list, no rejected line.
C9_RejectedLinesOmitted ==
  ( /\ ServedByEventHandler /\ req.method = "POST" /\ ~LacksRequired
    /\ Field("recurrence").t \in {"str", "arr"}
    /\ \A line \in InputLines(Field("recurrence")) : ~PassesRuleCheck(line)
    /\ Field("exDates") = Undef
    /\ DateAccepted(Field("start")) /\ DateAccepted(Field("end"))
    /\ \A n \in RequiredSettings : env[n] # <<>> )
    => /\ Len(calls) = 1
       /\ calls[1].op = "events.insert"
       /\ Payload.recurrence = Undef

\* a date of the shape YYYY-MM-DD
IsDateShape(d) ==
  /\ Len(d) = 10
  /\ \A i \in {1, 2, 3, 4, 6, 7, 9, 10} : d[i] \in digits
  /\ d[5] = "-" /\ d[8] = "-"

\* the start's time of day as HHMMSS: the characters after the "T", with
\* seconds 00 when the start has none
TimeOfDay(start) ==
  LET t == SubSeq(start, 12, Len(start))
  IN <<t[1], t[2], t[4], t[5]>> \o (IF Len(t) >= 8 THEN <<t[7], t[8]>> ELSE <<"0", "0">>)

\* the reference exception-date line, or <<>> when no date has the shape
ReferenceExDate(exDates, start, zone) ==
  LET valid == SelectSeq(exDates, LAMBDA d : IsDateShape(d.s))
      stamps == [i \in 1..Len(valid) |->
                   SelectSeq(valid[i].s, LAMBDA c : c # "-") \o <<"T">> \o TimeOfDay(start)]
  IN IF valid = <<>> THEN <<>>
     ELSE <<"E","X","D","A","T","E",";","T","Z","I","D","=">> \o zone \o <<":">> \o join(stamps)

\* C10 as stated: the exception-date line of the payload is the reference
\* result: the dates of the shape YYYY-MM-DD, in order, stamped with the
\* start's time of day, after "EXDATE;TZID=<zone>:", as the last recurrence
\* line; no EXDATE line when no date has the shape.
C10_ExDateIsReference ==
  ( /\ handler = "v3" /\ pc = "awaitInsert"
    /\ Field("exDates").t = "arr"
    /\ Field("start").t = "str" /\ dateParses(Field("start").s) )
    => LET zone == IF env["TIMEZONE"] # <<>> THEN env["TIMEZONE"] ELSE FallbackTZ
           ref == ReferenceExDate(Field("exDates").a, Field("start").s, zone)
       IN IF ref = <<>>
          THEN \A line \in PayloadLines : ~StartsWith(line, <<"E","X","D","A","T","E">>)
          ELSE /\ Payload.recurrence.t = "arr"
               /\ Payload.recurrence.a[Len(Payload.recurrence.a)].s = ref

\* the configured default zone: TIMEZONE, or the fallback constant
DefaultZone ==
  IF env["TIMEZONE"] # <<>> THEN env["TIMEZONE"]
  ELSE <<"A","m","e","r","i","c","a","/","I","n","d","i","a","n","a","/","I","n","d","i","a","n","a","p","o","l","i","s">>

\* the zone a structured input is to carry upstream: its own, or the default
ZoneOf(input) == IF input.timeZone = Undef THEN Str(DefaultZone) ELSE input.timeZone

\* the payload's pair p is the structured input, unconverted
SamePair(p, input) ==
  /\ DOMAIN p = {"dateTime", "timeZone"}
  /\ p.dateTime = input.dateTime
  /\ p.timeZone = ZoneOf(input)

\* a complete POST whose start and end are both structured, served by a
\* process with every required setting
StructuredDatesRequest ==
  /\ ServedByEventHandler /\ req.method = "POST" /\ ~LacksRequired
  /\ Field("start").t = "obj" /\ Field("end").t = "obj"
  /\ \A n \in RequiredSettings : env[n] # <<>>

\* C11 as stated: a structured {dateTime, timeZone} given as start or end of
\* a POST request appears in the upstream insert payload with the identical
\* local date-time string and the identical zone (the default zone when it
\* has none), never converted to a UTC instant.
C11_StructuredDatesRoundTrip ==
  StructuredDatesRequest
    => /\ Len(calls) = 1
       /\ calls[1].op = "events.insert"
       /\ SamePair(Payload.start, Field("start"))
       /\ SamePair(Payload.end, Field("end"))

\* C11 amended: the handler that normalises dates (events.ts:358) inserts a
\* structured start or end with the identical date-time string and zone,
\* the default zone replacing a missing one, and normalising a pair of its
\* payload again returns that pair.  The other variants do not accept the
\* structured shape: version 3 copies the whole object into dateTime under
\* the default zone, and the variants that call new Date(start) make no
\* insert for it.
C11_StructuredDatesByVariant ==
  /\ (handler = "dates" /\ calls # <<>>) =>
       \A f \in {"start", "end"} :
         /\ Field(f).t = "obj" => SamePair(Payload[f], Field(f))
         /\ normalizeDateInput(DateObj(Payload[f].dateTime, Payload[f].timeZone),
                               DefaultZone) = Ok(Payload[f])
  /\ (handler = "dates" /\ StructuredDatesRequest) => Len(calls) = 1
  /\ (handler = "v3" /\ calls # <<>>) =>
       \A f \in {"start", "end"} :
         Field(f).t = "obj" =>
           Payload[f] = [dateTime |-> Field(f), timeZone |-> Str(DefaultZone)]
  /\ ( /\ handler \in {"v1", "v2", "p2", "postOnly"}
       /\ (Field("start").t = "obj" \/ Field("end").t = "obj") )
       => calls = <<>>

\* C11 witness: the date-normalising handler awaits an insert whose start is
\* the structured input with its own zone, not the default one.
C11_Witness ==
  /\ handler = "dates" /\ pc = "awaitInsert"
  /\ Field("start") = DateObj(Str(sStartFull), Str(sTzUTC))
  /\ env["TIMEZONE"] = <<>>
  /\ Payload.start = [dateTime |-> Str(sStartFull), timeZone |-> Str(sTzUTC)]

====
